---------------------------- MODULE Spec2Model ----------------------------
(***************************************************************************)
(* A model of the ICP frame-to-model odometry orchestrator of pyLiDAR-SLAM *)
(* (slam/odometry/icp_odometry.py) and of the helpers it relies on         *)
(* (slam/common/utils.py).                                                 *)
(*                                                                         *)
(* Rigid transforms are modelled in the plane: an integer translation and  *)
(* a rotation by a multiple of a quarter turn.  The group is not           *)
(* commutative, so the order of every matrix product of the code is        *)
(* observable.  Lengths are in units of half the convergence threshold.    *)
(*                                                                         *)
(* The collaborators whose code is outside the orchestrator (local map,    *)
(* motion model, rigid alignment) are modelled by the calls they receive   *)
(* and by nondeterministic return values.                                  *)
(***************************************************************************)
EXTENDS Integers, Sequences, FiniteSets, TLC

\* ------------------------------------------------------------------ bounds
MaxFrames == 4

MaxNumAlignments == 2

\* the largest number of dimensions of a payload
MaxInputRank == 5

\* the largest size of a dimension
MaxDim == 3

\* the largest width of a vertex map whose cells are enumerated
MaxWidth == 3

\* the largest number of dimensions of a tensor checked against sizes
MaxRank == 2

\* the largest length of a tensor filtered for nan
MaxLen == 3

\* the largest number of shapes given to batched and of arguments given to
\* the function it wraps
MaxArgs == 2
MaxRingIds == 5
MaxPoints == 4
MaxMessages == 2

\* ------------------------------------------------ configuration (scaled)
ThresholdDeltaPose == 2

ThresholdTrans == 4

ThresholdRot == 90

\* ------------------------------------------------------------------- poses
\* A pose matrix: translation t and rotation of r quarter turns.
Identity == [t |-> <<0, 0>>, r |-> 0]

\* The value None where the code holds no pose.
NonePose == [t |-> <<0, 0>>, r |-> -1]

\* R^k applied to the vector v
RECURSIVE Rotate(_, _)
Rotate(k, v) ==
    IF k = 0 THEN v ELSE Rotate(k - 1, <<0 - v[2], v[1]>>)

\* The matrix product a @ b
MatMul(a, b) ==
    LET rb == Rotate(a.r, b.t)
    IN  [t |-> <<rb[1] + a.t[1], rb[2] + a.t[2]>>, r |-> (a.r + b.r) % 4]

\* Pose.build_pose_matrix: parameters (translation, angle in quarter turns
\* within (-2, 2]) to matrix
build_pose_matrix(p) == [t |-> p.t, r |-> (p.a + 4) % 4]

\* Pose.from_pose_matrix: matrix to parameters, the angle normalised to
\* (-180, 180] degrees, i.e. -1, 0, 1 or 2 quarter turns
from_pose_matrix(m) == [t |-> m.t, a |-> IF m.r = 3 THEN -1 ELSE m.r]

Abs(x) == IF x < 0 THEN 0 - x ELSE x

\* Squared norm of the translation part of a parameter vector
TransNormSq(p) == p.t[1] * p.t[1] + p.t[2] * p.t[2]

\* Norm of the rotation part in degrees: norm(angles) * 180 / pi
RotDegrees(p) == 90 * Abs(p.a)

\* 100 times the squared norm of the whole parameter vector: the angle
\* counts in radians, (pi / 2)^2 = 2.47
ParamsNormSq100(p) == 100 * TransNormSq(p) + 247 * p.a * p.a

\* (a variant that also stops at a norm equal to the threshold)
BelowOrAtThresholdDeltaPose(p) ==
    ParamsNormSq100(p) <= 100 * ThresholdDeltaPose * ThresholdDeltaPose

\* delta_pose.norm() < threshold_delta_pose
BelowThresholdDeltaPose(p) ==
    ParamsNormSq100(p) < 100 * ThresholdDeltaPose * ThresholdDeltaPose

\* ------------------------------------------------------------------ inputs
\* What rigid_alignment.align may return: a delta and the residual sum.
AlignResults ==
    { [delta |-> [t |-> <<1, 0>>, a |-> 0], residual |-> 0],
      [delta |-> [t |-> <<2, 0>>, a |-> 0], residual |-> 1] }

\* What the motion model may predict: None or a pose matrix.
InitialEstimates == { NonePose, [t |-> <<0, 0>>, r |-> 1] }

\* Frames (data_dict): whether the data key is present, the python type of
\* its value, the shape of the value, for a vertex map which cells hold a
\* return (1) and which are null (0), and whether "normal_map" is present.
Frame(k, ty, s, c, n) ==
    [has_key |-> k, type |-> ty, shape |-> s, cells |-> c, normal_map |-> n]

BadFrames ==
    { Frame(FALSE, "ndarray", <<2, 3>>, << >>, FALSE),
      Frame(TRUE, "list", <<2, 3>>, << >>, FALSE),
      Frame(TRUE, "ndarray", <<2, 4>>, << >>, FALSE),
      Frame(TRUE, "tensor", <<3>>, << >>, FALSE),
      Frame(TRUE, "tensor", <<2, 1, 2>>, <<1, 1>>, FALSE),
      Frame(TRUE, "tensor", <<2, 3, 1, 2>>, <<1, 1>>, FALSE) }

GoodFrames ==
    { Frame(TRUE, "ndarray", <<2, 3>>, << >>, FALSE),
      Frame(TRUE, "tensor", <<3, 1, 2>>, <<1, 0>>, TRUE) }

Frames == BadFrames \cup GoodFrames

\* ------------------------------------------------------------------- utils
\* the shapes of at most max_rank dimensions
Shapes(max_rank) == UNION { [1..n -> 1..MaxDim] : n \in 0..max_rank }

\* the lists of at most max_rank sizes, -1 among them
Sizes(max_rank) == UNION { [1..n -> {-1} \cup 1..MaxDim] : n \in 0..max_rank }

\* (a variant in which -1 matches no size)
sizes_match_no_wildcard(shape, sizes) ==
    /\ Len(shape) = Len(sizes)
    /\ \A i \in 1..Len(sizes) : sizes[i] = shape[i]

\* (a variant that compares the number of dimensions only)
sizes_match_rank_only(shape, sizes) == Len(shape) = Len(sizes)

\* sizes_match(tensor, sizes)
sizes_match(shape, sizes) ==
    /\ Len(shape) = Len(sizes)
    /\ \A i \in 1..Len(sizes) : sizes[i] = -1 \/ sizes[i] = shape[i]

\* (a variant that accepts every shape)
check_sizes_unchecked(shape, sizes) == "none"

\* check_sizes(tensor, sizes): the error it raises, "none" if it passes
check_sizes(shape, sizes) ==
    IF sizes_match(shape, sizes) THEN "none" ELSE "AssertionError"

\* ------------------------------------------------------------------- state
VARIABLES
    relative_poses,         \* self.relative_poses
    iter,                   \* self._iter
    delta_since_map_update, \* self._delta_since_map_update
    tgt_vmap,               \* self._tgt_vmap
    tgt_pc,                 \* self._tgt_pc
    local_map,              \* calls of self.local_map.update since its init()
    motion_model,           \* calls of register_motion since its init()
    call,                   \* the last call on the orchestrator
    probe,                  \* the last call of a function that returns a value
    dataset,                \* the fields of the UrbanLocoDataset
    item                    \* the last call of UrbanLocoDataset.__getitem__

vars == <<relative_poses, iter, delta_since_map_update, tgt_vmap, tgt_pc,
          local_map, motion_model, call, probe, dataset, item>>

\* no function has returned a value
NoProbe == [fn |-> "none"]

\* UrbanLocoDataset.__init__ with its default arguments
NewDataset ==
    [synchronise_azimuth |-> TRUE, current_frame |-> << >>, skip_frame |-> FALSE,
     use_first_id |-> FALSE]

\* __getitem__ was not called
NoItem ==
    [op |-> "__init__", outcome |-> "ok", read |-> 0, read_before |-> 0,
     message |-> "none", kept |-> << >>, numpy_pc |-> << >>, before |-> NewDataset]

NoneTensor == [shape |-> << >>, via |-> "none", cells |-> << >>]

\* ------------------------------------------------------------- _read_input
\* projector.build_projection_map: a vertex map of the sensor's fixed grid
build_projection_map(pc) ==
    [shape |-> <<1, 3, 1, 2>>, via |-> "projector", cells |-> <<1, 0>>]

\* the number of non-null cells of a vertex map
RECURSIVE NotNull(_)
NotNull(cells) ==
    IF cells = << >> THEN 0 ELSE Head(cells) + NotNull(Tail(cells))

\* _read_input(data_dict): the error raised ("none" if it returns), whether
\* the targets were cleared before it, and the vertex map and points read
ReadResult(e, c, v, p) == [error |-> e, cleared |-> c, vertex_map |-> v, pc_data |-> p]

read_input(data_dict) ==
    IF ~data_dict.has_key
    THEN ReadResult("AssertionError", FALSE, NoneTensor, NoneTensor)
    ELSE IF data_dict.type = "ndarray"
    THEN IF check_sizes(data_dict.shape, <<-1, 3>>) # "none"
         THEN ReadResult("AssertionError", TRUE, NoneTensor, NoneTensor)
         ELSE LET pc == [shape |-> <<1>> \o data_dict.shape, via |-> "from_numpy",
                         cells |-> << >>]
              IN  ReadResult("none", TRUE, build_projection_map(pc), pc)
    ELSE IF data_dict.type = "tensor"
    THEN IF Len(data_dict.shape) = 3 \/ Len(data_dict.shape) = 4
         THEN LET shape == IF Len(data_dict.shape) = 3
                           THEN <<1>> \o data_dict.shape
                           ELSE data_dict.shape
                  vmap  == [shape |-> shape, via |-> "cast", cells |-> data_dict.cells]
              IN  IF Len(data_dict.shape) = 4 /\ data_dict.shape[1] # 1
                  THEN ReadResult("AssertionError", TRUE, NoneTensor, NoneTensor)
                  ELSE IF check_sizes(shape, <<1, 3, -1, -1>>) # "none"
                  THEN ReadResult("AssertionError", TRUE, NoneTensor, NoneTensor)
                  ELSE ReadResult("none", TRUE, vmap,
                                  [shape |-> <<NotNull(data_dict.cells), 3>>,
                                   via |-> "mask_not_null", cells |-> << >>])
         ELSE IF Len(data_dict.shape) # 2
              THEN ReadResult("AssertionError", TRUE, NoneTensor, NoneTensor)
              ELSE LET pc == [shape |-> data_dict.shape, via |-> "tensor",
                              cells |-> << >>]
                   IN  ReadResult("none", TRUE, build_projection_map(pc), pc)
    ELSE ReadResult("RuntimeError", TRUE, NoneTensor, NoneTensor)

\* ------------------------------------------------------ register_new_frame
Ev(op, pose) == [op |-> op, pose |-> pose]

NoRegistration ==
    [error |-> "none", initial |-> NonePose, pose |-> NonePose, losses |-> << >>,
     deltas |-> << >>, n_points |-> -1, points |-> << >>, log |-> << >>]

\* (a variant that multiplies the delta on the right)
ComposeOnTheRight(delta_pose, new_pose_matrix) ==
    MatMul(new_pose_matrix, build_pose_matrix(delta_pose))

\* self.pose.build_pose_matrix(delta_pose) @ new_pose_matrix
Compose(delta_pose, new_pose_matrix) ==
    MatMul(build_pose_matrix(delta_pose), new_pose_matrix)

\* (a variant that leaves the loop one iteration early)
LoopExhaustedEarly(k, gn_max_iters) == k >= gn_max_iters

\* for _ in range(self.gn_max_iters): has the loop run out before its k-th
\* iteration
LoopExhausted(k, gn_max_iters) == k > gn_max_iters

\* ---------------------------------------------------------------- alignment
\* the linear system of a Gauss-Newton step
Systems == {"regular", "ill_conditioned", "singular"}

\* what align returns or raises: the error ("none" if it returns), whether
\* every parameter returned is finite, the parameters and the residual
Aligned(error, finite, params, residual) ==
    [error |-> error, finite |-> finite, params |-> params, residual |-> residual]

\* torch.zeros(B, num_params)
ZeroParams == [t |-> <<0, 0>>, a |-> 0]

\* GaussNewton.compute(initial_estimate, ...): a regular system is solved; a
\* singular or ill-conditioned one is solved with damping where damping
\* recovers it and fails with DegenerateSystem where it does not.  step is
\* the solution found.
gauss_newton_compute(initial_estimate, system, recovers, step) ==
    IF system = "regular" \/ recovers
    THEN Aligned("none", TRUE,
                 from_pose_matrix(MatMul(build_pose_matrix(step.delta),
                                         build_pose_matrix(initial_estimate))),
                 step.residual)
    ELSE Aligned("DegenerateSystem", FALSE, ZeroParams, 0)

\* (a variant that catches the failure and returns the parameters it has)
align_swallowing_failure(initial_estimate, system, recovers, step) ==
    LET result == gauss_newton_compute(IF initial_estimate = NonePose THEN ZeroParams
                                       ELSE from_pose_matrix(initial_estimate),
                                       system, recovers, step)
    IN  [result EXCEPT !.error = "none"]

\* (a variant that always starts from zero)
align_start_zero(initial_estimate) == ZeroParams

\* the parameters the solve starts from: the initial estimate is None, a
\* pose matrix (rank 3) or a parameter vector
align_start(initial_estimate) ==
    IF initial_estimate = NonePose THEN ZeroParams
    ELSE IF "r" \in DOMAIN initial_estimate THEN from_pose_matrix(initial_estimate)
    ELSE initial_estimate

\* GaussNewtonPointToPlaneAlignment.align(..., initial_estimate)
align(initial_estimate, system, recovers, step) ==
    gauss_newton_compute(align_start(initial_estimate), system, recovers, step)

\* (a variant that hands the current estimate to align)
align_in_loop_seeded(new_pose_matrix, step) ==
    align(new_pose_matrix, "regular", TRUE, step).params

\* self.rigid_alignment.align(neigh_pc, tgt_pc, neigh_normals, **kwargs) in
\* the registration loop: no initial estimate is given
align_in_loop(new_pose_matrix, step) ==
    align(NonePose, "regular", TRUE, step).params

\* (a variant that writes the transformed points into the local map)
IterationStepsUpdatingMap(new_pose_matrix, delta_pose) ==
    << Ev("apply_transformation", new_pose_matrix),
       Ev("local_map.update", new_pose_matrix),
       Ev("nearest_neighbor_search", new_pose_matrix),
       Ev("align", build_pose_matrix(delta_pose)),
       Ev("losses.append", NonePose) >>

\* the calls of one iteration of the loop up to the convergence test, where
\* new_pose_matrix is the estimate it starts from and delta_pose what align
\* returns
IterationSteps(new_pose_matrix, delta_pose) ==
    << Ev("apply_transformation", new_pose_matrix),
       Ev("nearest_neighbor_search", new_pose_matrix),
       Ev("align", build_pose_matrix(delta_pose)),
       Ev("losses.append", NonePose) >>

\* (a variant that keeps every cell)
old_target_points_unfiltered(cells) == [i \in 1..Len(cells) |-> i]

\* old_target_points: the cells of the vertex map of non-zero norm, as
\* indices into the vertex map, in the order of the map
old_target_points(cells) ==
    SelectSeq([i \in 1..Len(cells) |-> i], LAMBDA i : cells[i] > 0)

\* The loop of register_new_frame from its k-th iteration on: aligns[k] is
\* what rigid_alignment.align returns in iteration k.
RECURSIVE RegistrationLoop(_, _, _, _, _, _, _)
RegistrationLoop(k, gn_max_iters, new_pose_matrix, losses, deltas, log, aligns) ==
    IF LoopExhausted(k, gn_max_iters)
    THEN [pose |-> new_pose_matrix, losses |-> losses, deltas |-> deltas, log |-> log]
    ELSE LET delta_pose == align_in_loop(new_pose_matrix, aligns[k])
             loss       == aligns[k].residual
             log1       == log \o IterationSteps(new_pose_matrix, delta_pose)
         IN  IF BelowThresholdDeltaPose(delta_pose)
             THEN [pose |-> new_pose_matrix, losses |-> Append(losses, loss),
                   deltas |-> Append(deltas, delta_pose),
                   log |-> Append(log1, Ev("break", new_pose_matrix))]
             ELSE LET composed == Compose(delta_pose, new_pose_matrix)
                  IN  RegistrationLoop(k + 1, gn_max_iters, composed,
                                       Append(losses, loss), Append(deltas, delta_pose),
                                       Append(log1, Ev("compose", composed)), aligns)

\* register_new_frame(target_vmap, initial_estimate): target_vmap is
\* self._tgt_vmap[0]
register_new_frame(target_vmap, initial_estimate, aligns) ==
    IF check_sizes(Tail(target_vmap.shape), <<3, -1, -1>>) # "none"
    THEN [NoRegistration EXCEPT !.error = "AssertionError"]
    ELSE LET new_pose_matrix == IF initial_estimate = NonePose
                                THEN Identity ELSE initial_estimate
             loop == RegistrationLoop(1, MaxNumAlignments, new_pose_matrix,
                                      << >>, << >>, << >>, aligns)
         IN  [error |-> "none", initial |-> initial_estimate, pose |-> loop.pose,
              losses |-> loop.losses, deltas |-> loop.deltas,
              n_points |-> NotNull(target_vmap.cells),
              points |-> old_target_points(target_vmap.cells), log |-> loop.log]

\* ----------------------------------------------------------- __update_map
NoUpdate ==
    [pose |-> NonePose, new_vertex_map |-> NoneTensor, new_pc_data |-> NoneTensor,
     normal_map |-> FALSE, mask |-> FALSE]

\* (a variant that also updates at a rotation equal to the threshold)
ReachesThresholds(delta_params) ==
    \/ TransNormSq(delta_params) > ThresholdTrans * ThresholdTrans
    \/ RotDegrees(delta_params) >= ThresholdRot

\* (a variant that keeps accumulating after a full update)
DeltaKept(new_delta) == new_delta

\* the cumulative delta after a full update: torch.eye(4)
DeltaAfterFullUpdate(new_delta) == Identity

\* (a variant that looks at the translation only)
ExceedsTransOnly(delta_params) ==
    TransNormSq(delta_params) > ThresholdTrans * ThresholdTrans

\* does the cumulative delta call for a full update of the map
ExceedsThresholds(delta_params) ==
    \/ TransNormSq(delta_params) > ThresholdTrans * ThresholdTrans
    \/ RotDegrees(delta_params) > ThresholdRot

\* (a variant that hands the cumulative delta to a pose-only update)
update_map_cumulative(new_rpose, data_dict, delta, vmap, pc) ==
    IF delta = NonePose
    THEN [error |-> "TypeError", update |-> NoUpdate, delta |-> delta]
    ELSE LET new_delta    == MatMul(delta, new_rpose)
             delta_params == from_pose_matrix(new_delta)
         IN  IF ExceedsThresholds(delta_params)
             THEN [error |-> "none",
                   update |-> [pose |-> new_rpose, new_vertex_map |-> vmap,
                               new_pc_data |-> pc,
                               normal_map |-> data_dict.normal_map, mask |-> TRUE],
                   delta |-> DeltaAfterFullUpdate(new_delta)]
             ELSE [error |-> "none",
                   update |-> [NoUpdate EXCEPT !.pose = new_delta],
                   delta |-> new_delta]

\* __update_map(new_rpose, data_dict): the error raised, the call made on
\* the local map and the new value of self._delta_since_map_update
update_map(new_rpose, data_dict, delta, vmap, pc) ==
    IF delta = NonePose
    THEN [error |-> "TypeError", update |-> NoUpdate, delta |-> delta]
    ELSE LET new_delta    == MatMul(delta, new_rpose)
             delta_params == from_pose_matrix(new_delta)
         IN  IF ExceedsThresholds(delta_params)
             THEN [error |-> "none",
                   update |-> [pose |-> new_rpose, new_vertex_map |-> vmap,
                               new_pc_data |-> pc,
                               normal_map |-> data_dict.normal_map, mask |-> TRUE],
                   delta |-> DeltaAfterFullUpdate(new_delta)]
             ELSE [error |-> "none",
                   update |-> [NoUpdate EXCEPT !.pose = new_rpose],
                   delta |-> new_delta]

\* is this call on the local map a pose-only update
PoseOnly(u) == u.new_vertex_map = NoneTensor /\ u.new_pc_data = NoneTensor

\* ------------------------------------------------------------------ actions
Snapshot ==
    [iter |-> iter, delta |-> delta_since_map_update, n_poses |-> Len(relative_poses),
     n_updates |-> Len(local_map), n_motions |-> Len(motion_model),
     poses |-> relative_poses]

NoFrame == Frame(FALSE, "none", << >>, << >>, FALSE)

Call(op, outcome, trace, frame, reg, update) ==
    [op |-> op, outcome |-> outcome, trace |-> trace, frame |-> frame,
     reg |-> reg, update |-> update, before |-> Snapshot]

\* the state after __init__
Init ==
    /\ relative_poses = << >>
    /\ iter = 0
    /\ tgt_vmap = NoneTensor
    /\ tgt_pc = NoneTensor
    /\ delta_since_map_update = NonePose
    /\ local_map = << >>
    /\ motion_model = << >>
    /\ call = [op |-> "__init__", outcome |-> "ok", trace |-> << >>, frame |-> NoFrame,
               reg |-> NoRegistration, update |-> NoUpdate,
               before |-> [iter |-> 0, delta |-> NonePose, n_poses |-> 0,
                           n_updates |-> 0, n_motions |-> 0, poses |-> << >>]]
    /\ probe = NoProbe
    /\ dataset = NewDataset
    /\ item = NoItem

initKeepingCounter ==
    /\ relative_poses' = << >>
    /\ local_map' = << >>
    /\ motion_model' = << >>
    /\ iter' = iter
    /\ delta_since_map_update' = Identity
    /\ call' = Call("init", "ok",
                    << Ev("local_map.init", NonePose), Ev("motion_model.init", NonePose) >>,
                    NoFrame, NoRegistration, NoUpdate)
    /\ probe' = NoProbe
    /\ UNCHANGED <<dataset, item>>
    /\ UNCHANGED <<tgt_vmap, tgt_pc>>

\* init()
init ==
    /\ relative_poses' = << >>
    /\ local_map' = << >>
    /\ motion_model' = << >>
    /\ iter' = 0
    /\ delta_since_map_update' = Identity
    /\ call' = Call("init", "ok",
                    << Ev("local_map.init", NonePose), Ev("motion_model.init", NonePose) >>,
                    NoFrame, NoRegistration, NoUpdate)
    /\ probe' = NoProbe
    /\ UNCHANGED <<dataset, item>>
    /\ UNCHANGED <<tgt_vmap, tgt_pc>>

\* do_process_next_frame(data_dict) when _read_input raises
ProcessRejected(data_dict, read) ==
    /\ tgt_vmap' = IF read.cleared THEN NoneTensor ELSE tgt_vmap
    /\ tgt_pc' = IF read.cleared THEN NoneTensor ELSE tgt_pc
    /\ call' = Call("do_process_next_frame", read.error,
                    << Ev("_read_input", NonePose) >>, data_dict, NoRegistration, NoUpdate)
    /\ probe' = NoProbe
    /\ UNCHANGED <<dataset, item>>
    /\ UNCHANGED <<relative_poses, iter, delta_since_map_update, local_map, motion_model>>

\* the first-frame branch of do_process_next_frame, recording relative_pose
\* and making the call `update` on the local map
\* (a variant that returns before the counter is incremented)
FirstFrameStepNoCount(relative_pose, update, data_dict, read) ==
    /\ tgt_vmap' = read.vertex_map
    /\ tgt_pc' = read.pc_data
    /\ local_map' = Append(local_map, update)
    /\ relative_poses' = Append(relative_poses, relative_pose)
    /\ iter' = iter
    /\ call' = Call("do_process_next_frame", "ok",
                    << Ev("_read_input", NonePose),
                       Ev("local_map.update", update.pose),
                       Ev("relative_poses.append", relative_pose) >>,
                    data_dict, NoRegistration, update)
    /\ probe' = NoProbe
    /\ UNCHANGED <<dataset, item>>
    /\ UNCHANGED <<delta_since_map_update, motion_model>>

FirstFrameStep(relative_pose, update, data_dict, read) ==
    /\ tgt_vmap' = read.vertex_map
    /\ tgt_pc' = read.pc_data
    /\ local_map' = Append(local_map, update)
    /\ relative_poses' = Append(relative_poses, relative_pose)
    /\ iter' = iter + 1
    /\ call' = Call("do_process_next_frame", "ok",
                    << Ev("_read_input", NonePose),
                       Ev("local_map.update", update.pose),
                       Ev("relative_poses.append", relative_pose),
                       Ev("_iter += 1", NonePose) >>,
                    data_dict, NoRegistration, update)
    /\ probe' = NoProbe
    /\ UNCHANGED <<dataset, item>>
    /\ UNCHANGED <<delta_since_map_update, motion_model>>

\* (a variant whose first pose depends on the frame)
ProcessFirstPoseFromFrame(data_dict, read) ==
    LET relative_pose == IF data_dict.type = "tensor"
                         THEN [t |-> <<1, 0>>, r |-> 0] ELSE Identity
    IN  FirstFrameStep(relative_pose,
                       [NoUpdate EXCEPT !.pose = Identity,
                                        !.new_vertex_map = read.vertex_map],
                       data_dict, read)

\* (a variant that does not hand the vertex map to the local map)
ProcessFirstNoSeed(data_dict, read) ==
    FirstFrameStep(Identity, [NoUpdate EXCEPT !.pose = Identity], data_dict, read)

\* do_process_next_frame(data_dict) when self._iter == 0
ProcessFirst(data_dict, read) ==
    FirstFrameStep(Identity,
                   [NoUpdate EXCEPT !.pose = Identity,
                                    !.new_vertex_map = read.vertex_map],
                   data_dict, read)

\* (a variant that forgets the motion)
MotionDropped(new_rpose) == motion_model

\* update_initialization(new_rpose, data_dict): the motion model after
\* register_motion
update_initialization(new_rpose) == Append(motion_model, new_rpose)

\* (a variant that updates the map before the motion model)
MapBeforeMotionSteps(new_rpose) ==
    << Ev("local_map.update", new_rpose), Ev("register_motion", new_rpose),
       Ev("relative_poses.append", new_rpose), Ev("_iter += 1", NonePose) >>

\* the steps of do_process_next_frame that follow the registration
PostRegistrationSteps(new_rpose) ==
    << Ev("register_motion", new_rpose), Ev("local_map.update", new_rpose),
       Ev("relative_poses.append", new_rpose), Ev("_iter += 1", NonePose) >>

\* do_process_next_frame(data_dict) when self._iter > 0
ProcessNext(data_dict, read, initial_estimate, aligns) ==
    \E reg \in {register_new_frame(read.vertex_map, initial_estimate, aligns)} :
    \E upd \in {update_map(reg.pose, data_dict, delta_since_map_update,
                           read.vertex_map, read.pc_data)} :
    LET log1  == << Ev("_read_input", NonePose),
                    Ev("next_initial_pose", initial_estimate) >> \o reg.log
        steps == PostRegistrationSteps(reg.pose)
    IN  /\ tgt_vmap' = read.vertex_map
        /\ tgt_pc' = read.pc_data
        /\ probe' = NoProbe
        /\ UNCHANGED <<dataset, item>>
        /\ IF reg.error # "none"
           THEN /\ call' = Call("do_process_next_frame", reg.error, log1, data_dict,
                                reg, NoUpdate)
                /\ UNCHANGED <<relative_poses, iter, delta_since_map_update,
                               local_map, motion_model>>
           ELSE IF upd.error # "none"
           THEN /\ motion_model' = update_initialization(reg.pose)
                /\ call' = Call("do_process_next_frame", upd.error,
                                Append(log1, steps[1]), data_dict, reg, NoUpdate)
                /\ UNCHANGED <<relative_poses, iter, delta_since_map_update, local_map>>
           ELSE /\ motion_model' = update_initialization(reg.pose)
                /\ local_map' = Append(local_map, upd.update)
                /\ delta_since_map_update' = upd.delta
                /\ relative_poses' = Append(relative_poses, reg.pose)
                /\ iter' = iter + 1
                /\ call' = Call("do_process_next_frame", "ok", log1 \o steps,
                                data_dict, reg, upd.update)

\* do_process_next_frame(data_dict): the motion model's prediction and the
\* results of the alignment are drawn where the code asks for them.  The
\* guards cap the frame counter and the motion history.
do_process_next_frame(data_dict) ==
    /\ iter < MaxFrames
    /\ Len(motion_model) <= iter
    /\ \E read \in {read_input(data_dict)} :
           \/ /\ read.error # "none"
              /\ ProcessRejected(data_dict, read)
           \/ /\ read.error = "none"
              /\ iter = 0
              /\ ProcessFirst(data_dict, read)
           \/ /\ read.error = "none"
              /\ iter # 0
              /\ \E initial_estimate \in InitialEstimates,
                    aligns \in [1..MaxNumAlignments -> AlignResults] :
                    ProcessNext(data_dict, read, initial_estimate, aligns)

\* np.concatenate(list, axis=0) of arrays of shape (1, 4, 4): the poses of
\* all the arrays, in the order of the list
RECURSIVE concatenate(_)
concatenate(arrays) ==
    IF arrays = << >> THEN << >>
    ELSE << Head(arrays) >> \o concatenate(Tail(arrays))

\* the program state but the record of the last call
ProgramState ==
    <<relative_poses, iter, delta_since_map_update, tgt_vmap, tgt_pc, local_map,
      motion_model>>

RelativePosesLastOnly(list) ==
    IF Len(list) = 0
    THEN [is_none |-> TRUE, array |-> << >>]
    ELSE [is_none |-> FALSE, array |-> << list[Len(list)] >>]

\* what get_relative_poses returns for the list relative_poses
RelativePoses(list) ==
    IF Len(list) = 0
    THEN [is_none |-> TRUE, array |-> << >>]
    ELSE [is_none |-> FALSE, array |-> concatenate(list)]

\* get_relative_poses()
get_relative_poses ==
    /\ probe' = [fn |-> "get_relative_poses", ret |-> RelativePoses(relative_poses),
                 before |-> ProgramState]
    /\ call' = Call("get_relative_poses", "ok", << >>, NoFrame, NoRegistration, NoUpdate)
    /\ UNCHANGED <<relative_poses, iter, delta_since_map_update, tgt_vmap, tgt_pc,
                   local_map, motion_model, dataset, item>>

Next ==
    \/ init
    \/ \E data_dict \in Frames : do_process_next_frame(data_dict)
    \/ get_relative_poses

Spec == Init /\ [][Next]_vars

\* ---------------------------------------------------- calls of one function
\* a payload of python type ty and shape s under the data key, every cell of
\* which holds a return
Payload(ty, s) ==
    Frame(TRUE, ty, s,
          IF Len(s) >= 2 THEN [i \in 1..(s[Len(s) - 1] * s[Len(s)]) |-> 1] ELSE << >>,
          FALSE)

Payloads ==
    { Payload(ty, s) : ty \in {"ndarray", "tensor", "list"}, s \in Shapes(MaxInputRank) }
        \cup { Frame(FALSE, "ndarray", <<2, 3>>, << >>, FALSE) }

\* vertex-map tensors 3 x 1 x W with any cells null
VertexMaps ==
    UNION { { Frame(TRUE, "tensor", <<3, 1, w>>, c, FALSE) : c \in [1..w -> {0, 1}] } :
            w \in 1..MaxWidth }

\* a call recorded in probe
Probe(fn, arg, ret) == [fn |-> fn, arg |-> arg, ret |-> ret]

Untouched ==
    UNCHANGED <<relative_poses, iter, delta_since_map_update, tgt_vmap, tgt_pc,
                local_map, motion_model, call, dataset, item>>

\* _read_input(data_dict) on the constructed object
call_read_input ==
    /\ probe = NoProbe
    /\ \E data_dict \in Payloads :
            probe' = Probe("_read_input", data_dict, read_input(data_dict))
    /\ Untouched

\* register_new_frame(target_vmap, initial_estimate) on the vertex map read
\* from a frame
call_register_new_frame ==
    /\ probe = NoProbe
    /\ \E data_dict \in VertexMaps \cup GoodFrames :
       \E initial_estimate \in InitialEstimates :
       \E aligns \in [1..MaxNumAlignments -> AlignResults] :
            probe' = Probe("register_new_frame", read_input(data_dict).vertex_map,
                           register_new_frame(read_input(data_dict).vertex_map,
                                              initial_estimate, aligns))
    /\ Untouched

\* ------------------------------------------------------------------ loaders
\* An entry of a registry: the class to build and the class of its
\* configuration, "None" for an entry that builds nothing.
Entry(class, config) == [class |-> class, config |-> config]

\* DATASET.__members__ (two of its entries), and a registry with an entry
\* that builds nothing
DATASET ==
    [name \in {"kitti", "nclt"} |->
        IF name = "kitti" THEN Entry("KITTIDatasetLoader", "KITTIConfig")
        ELSE Entry("NCLTDatasetLoader", "NCLTConfig")]

WithEmptyEntry ==
    [name \in {"kitti", "none", "no_config"} |->
        IF name = "kitti" THEN Entry("KITTIDatasetLoader", "KITTIConfig")
        ELSE IF name = "no_config" THEN Entry("KITTIDatasetLoader", "None")
        ELSE Entry("None", "None")]

\* RIGID_ALIGNMENT.__members__
RIGID_ALIGNMENT ==
    [name \in {"point_to_plane_gauss_newton"} |->
        Entry("GaussNewtonPointToPlaneAlignment", "GaussNewtonPointToPlaneConfig")]

\* the values a configuration holds under a key: MISSING, None or a name
TypeValues == {"MISSING", "None", "kitti", "nclt", "none", "no_config", "kiti"}

ModeValues == {"MISSING", "None", "point_to_plane_gauss_newton", "point_to_plane_linear"}

\* Configurations: a DictConfig or an object, and its fields.  cls.type_name()
\* is "dataset".
Configs ==
    { [kind |-> k, fields |-> f] :
        k \in {"DictConfig", "object"},
        f \in [{"dataset", "root_dir"} -> TypeValues] \cup [{"root_dir"} -> {"MISSING", "kitti"}] }

\* key in config, hasattr(config, key)
contains(config, key) ==
    /\ key \in DOMAIN config.fields
    /\ config.kind = "DictConfig" => config.fields[key] # "MISSING"

\* what a loader returns: the error it raises ("none" if it returns), whether
\* it returns None, and the class and the configuration of the object built
Loaded(class, config, kwargs) ==
    [error |-> "none", is_none |-> FALSE, class |-> class, config |-> config,
     kwargs |-> kwargs]

NotLoaded(error) ==
    [error |-> error, is_none |-> error = "none", class |-> "none", config |-> << >>,
     kwargs |-> {}]

\* (a variant that also copies the values that are MISSING)
new_config_copying_missing(config) ==
    [key \in {"dataset", "root_dir"} |->
        IF key \in DOMAIN config.fields THEN config.fields[key] ELSE "default"]

\* new_config = _config(), then every key of config that is not MISSING is
\* set on it
new_config(config) ==
    [key \in {"dataset", "root_dir"} |->
        IF key \in DOMAIN config.fields /\ config.fields[key] # "MISSING"
        THEN config.fields[key] ELSE "default"]

\* ObjectLoaderEnum.load(config, **kwargs) of a loader whose registry is
\* members
load(members, config, kwargs) ==
    IF ~contains(config, "dataset") THEN NotLoaded("AssertionError")
    ELSE LET type == config.fields["dataset"]
         IN  IF type \notin DOMAIN members THEN NotLoaded("AssertionError")
             ELSE IF members[type].class = "None" \/ members[type].config = "None"
             THEN NotLoaded("none")
             ELSE IF config.kind = "DictConfig"
             THEN Loaded(members[type].class, new_config(config), kwargs)
             ELSE Loaded(members[type].class, config.fields, kwargs)

\* (a variant that falls back on the only strategy)
rigid_alignment_load_default(mode) ==
    IF mode = "MISSING" THEN NotLoaded("MissingMandatoryValue")
    ELSE Loaded("GaussNewtonPointToPlaneAlignment", [mode |-> mode], {})

\* RIGID_ALIGNMENT.load(config), where mode is config.mode: reading a MISSING
\* value of a DictConfig raises MissingMandatoryValue
rigid_alignment_load(mode) ==
    IF mode = "MISSING" THEN NotLoaded("MissingMandatoryValue")
    ELSE IF mode \notin DOMAIN RIGID_ALIGNMENT THEN NotLoaded("AssertionError")
    ELSE Loaded(RIGID_ALIGNMENT[mode].class, [mode |-> mode], {})

\* ICPFrameToModel.__init__(config, projector): the error it raises, "none"
\* if the object is constructed
construct(projector_given, mode) ==
    IF ~projector_given THEN "AssertionError"
    ELSE rigid_alignment_load(mode).error

call_load ==
    /\ probe = NoProbe
    /\ \E members \in {DATASET, WithEmptyEntry} : \E config \in Configs :
       \E kwargs \in {{}, {"device"}} :
            probe' = Probe("ObjectLoaderEnum.load", <<members, config, kwargs>>,
                           load(members, config, kwargs))
    /\ Untouched

call_rigid_alignment_load ==
    /\ probe = NoProbe
    /\ \E mode \in ModeValues : \E projector_given \in BOOLEAN :
            probe' = Probe("RIGID_ALIGNMENT.load", <<mode, projector_given>>,
                           [loaded |-> rigid_alignment_load(mode),
                            constructed |-> construct(projector_given, mode)])
    /\ Untouched

call_align ==
    /\ probe = NoProbe
    /\ \E initial_estimate \in InitialEstimates \cup
                                   {[t |-> <<1, 2>>, r |-> 3], [t |-> <<1, 2>>, a |-> -1]} :
       \E system \in Systems : \E recovers \in BOOLEAN : \E step \in AlignResults :
            probe' = Probe("align", <<initial_estimate, system, recovers, step>>,
                           align(initial_estimate, system, recovers, step))
    /\ Untouched

\* -------------------------------------------------------------- common utils
\* check_sizes(tensor, sizes) and sizes_match(tensor, sizes) on a tensor of
\* the given shape
call_check_sizes ==
    /\ probe = NoProbe
    /\ \E shape \in Shapes(MaxRank) : \E sizes \in Sizes(MaxRank) :
            probe' = Probe("check_sizes", <<shape, sizes>>,
                           [raised |-> check_sizes(shape, sizes),
                            match |-> sizes_match(shape, sizes)])
    /\ Untouched

\* Tensors given to remove_nan: a torch tensor, a numpy array or another
\* object with a shape; of one dimension (a list of values), of two (a
\* list of rows of two values) or of three
Values == {"nan", "1.0", "2.0"}

Tensor(kind, ndims, data) == [kind |-> kind, ndims |-> ndims, data |-> data]

Tensors ==
    { Tensor(k, 1, d) : k \in {"tensor", "ndarray", "other"},
                        d \in UNION { [1..n -> Values] : n \in 0..MaxLen } }
    \cup { Tensor(k, 2, d) : k \in {"tensor", "ndarray"},
                             d \in UNION { [1..n -> [1..2 -> {"nan", "1.0"}]] :
                                           n \in 0..(MaxLen - 1) } }
    \cup { Tensor(k, 3, << >>) : k \in {"tensor", "ndarray"} }

\* tensor[_filter]: the entries of data at which the filter is true
RECURSIVE Masked(_, _)
Masked(data, filter) ==
    IF data = << >> THEN << >>
    ELSE (IF Head(filter) THEN << Head(data) >> ELSE << >>)
             \o Masked(Tail(data), Tail(filter))

\* torch.isnan(tensor), np.isnan(tensor) of a tensor of one dimension
isnan(data) == [i \in 1..Len(data) |-> data[i] = "nan"]

\* ~torch.any(torch.isnan(tensor), dim=1) of a tensor of two dimensions
no_nan_in_row(data) ==
    [i \in 1..Len(data) |-> ~(\E j \in 1..Len(data[i]) : data[i][j] = "nan")]

\* remove_nan(tensor): the error raised ("none" if it returns), the tensor
\* and the filter returned
remove_nan(tensor) ==
    IF tensor.ndims > 2
    THEN [error |-> "AssertionError", tensor |-> << >>, filter |-> << >>]
    ELSE IF tensor.kind \notin {"tensor", "ndarray"}
    THEN [error |-> "NotImplementedError", tensor |-> << >>, filter |-> << >>]
    ELSE LET filter == IF tensor.ndims = 2 THEN no_nan_in_row(tensor.data)
                       ELSE isnan(tensor.data)
         IN  [error |-> "none", tensor |-> Masked(tensor.data, filter), filter |-> filter]

call_remove_nan ==
    /\ probe = NoProbe
    /\ \E tensor \in Tensors : probe' = Probe("remove_nan", tensor, remove_nan(tensor))
    /\ Untouched

\* A run of `git rev-parse --short HEAD`: the exception subprocess.Popen
\* raises, the exception communicate() raises ("ok" if none), and the bytes
\* written to stdout; "0xff" is a byte that is not valid utf-8.
GitRuns ==
    { [popen |-> p, communicate |-> c, stdout |-> o] :
        p \in {"ok", "FileNotFoundError", "PermissionError"},
        c \in {"ok", "OSError"},
        o \in { <<"a", "1", "b", "2", "\n">>, << >>, <<"0xff", "\n">> } }

\* what the body of the try statement raises, "none" if it returns
git_hash_raised(run) ==
    IF run.popen # "ok" THEN run.popen
    ELSE IF run.communicate # "ok" THEN run.communicate
    ELSE IF \E i \in 1..Len(run.stdout) : run.stdout[i] = "0xff" THEN "UnicodeDecodeError"
    ELSE "none"

\* `except ...:` the handler names the Ellipsis object, which is no
\* exception class: matching an exception against it raises TypeError
except_ellipsis(raised) == "TypeError"

\* get_git_hash(): the error that reaches the caller ("none" if it returns),
\* whether it returns None, and the string returned
get_git_hash(run) ==
    IF git_hash_raised(run) = "none"
    THEN [error |-> "none", is_none |-> FALSE,
          value |-> SubSeq(run.stdout, 1, Len(run.stdout) - 1)]
    ELSE [error |-> except_ellipsis(git_hash_raised(run)), is_none |-> FALSE,
          value |-> << >>]

call_get_git_hash ==
    /\ probe = NoProbe
    /\ \E run \in GitRuns : probe' = Probe("get_git_hash", run, get_git_hash(run))
    /\ Untouched

\* ------------------------------------------------------------------ batched
\* Python values: an array of a shape, a value that is no array, and a tuple
\* or a list of values
Array(shape) == [kind |-> "array", shape |-> shape, items |-> << >>]

Other == [kind |-> "other", shape |-> << >>, items |-> << >>]

Collection(kind, items) == [kind |-> kind, shape |-> << >>, items |-> items]

\* __wrap(tensor)
wrap(tensor) ==
    IF tensor.kind = "array" THEN Array(<<1>> \o tensor.shape) ELSE tensor

\* __unwrap(result)
RECURSIVE unwrap(_)
unwrap(result) ==
    IF result.kind \in {"tuple", "list"}
    THEN Collection(result.kind,
                    [i \in 1..Len(result.items) |-> unwrap(result.items[i])])
    ELSE IF result.kind = "array" THEN Array(Tail(result.shape))
    ELSE result

\* (a variant that decides for every argument)
decide_extended_each(extended, tensor, shape) ==
    IF Len(tensor.shape) = Len(shape) - 1 THEN "True" ELSE "False"

\* if extended is None: extended = len(tensor.shape) == len(shape) - 1
decide_extended(extended, tensor, shape) ==
    IF extended = "None"
    THEN (IF Len(tensor.shape) = Len(shape) - 1 THEN "True" ELSE "False")
    ELSE extended

\* check_sizes(tensor, shape) of a python value: a value without a shape
\* raises AttributeError
check_sizes_of(tensor, shape) ==
    IF tensor.kind # "array" THEN "AttributeError" ELSE check_sizes(tensor.shape, shape)

\* the loop of _wrapper over the shapes from index idx on
RECURSIVE BatchArgs(_, _, _, _, _)
BatchArgs(idx, shapes, args, extended, batched_args) ==
    IF idx > Len(shapes)
    THEN [error |-> "none", extended |-> extended, batched_args |-> batched_args]
    ELSE IF args[1].kind # "array"
    THEN [error |-> "AssertionError", extended |-> extended, batched_args |-> batched_args]
    ELSE LET ext    == decide_extended(extended, args[idx], shapes[idx])
             tensor == IF ext = "True" THEN wrap(args[idx]) ELSE args[idx]
             new    == IF ext = "True" THEN [batched_args EXCEPT ![idx] = tensor]
                       ELSE batched_args
             raised == check_sizes_of(tensor, shapes[idx])
         IN  IF raised # "none"
             THEN [error |-> raised, extended |-> ext, batched_args |-> new]
             ELSE BatchArgs(idx + 1, shapes, args, ext, new)

\* The functions wrapped: lambda x: x, lambda *a: a, lambda *a: [a, 1.0]
Funcs == {"identity", "args", "nested"}

Apply(func, args) ==
    IF func = "identity" THEN args[1]
    ELSE IF func = "args" THEN Collection("tuple", args)
    ELSE Collection("list", << Collection("tuple", args), Other >>)

\* batched(*shapes, unwrap_output_tensors)(func)(*args): the error raised,
\* whether the arguments were extended, the arguments func got and the result
batched(shapes, unwrap_output_tensors, func, args) ==
    IF Len(args) < Len(shapes)
    THEN [error |-> "AssertionError", extended |-> "None", batched_args |-> args,
          result |-> Other]
    ELSE LET loop == BatchArgs(1, shapes, args, "None", args)
         IN  IF loop.error # "none"
             THEN [error |-> loop.error, extended |-> loop.extended,
                   batched_args |-> loop.batched_args, result |-> Other]
             ELSE LET result == Apply(func, loop.batched_args)
                  IN  [error |-> "none", extended |-> loop.extended,
                       batched_args |-> loop.batched_args,
                       result |-> IF loop.extended = "True" /\ unwrap_output_tensors
                                  THEN unwrap(result) ELSE result]

\* the shapes given to the decorator and the arguments given to the function
ShapeLists ==
    UNION { [1..k -> {<<-1, 3>>, <<1, 2>>, <<-1, -1, 3>>}] : k \in 0..MaxArgs }

ArgLists ==
    UNION { [1..n -> {Array(<<3>>), Array(<<2, 3>>), Array(<<1, 3>>), Array(<<2>>), Other}] :
            n \in 0..MaxArgs }

call_batched ==
    /\ probe = NoProbe
    /\ \E shapes \in ShapeLists : \E args \in ArgLists :
       \E unwrap_output_tensors \in BOOLEAN : \E func \in Funcs :
            /\ func = "identity" => Len(args) = 1
            /\ probe' = Probe("batched",
                              [shapes |-> shapes, unwrap |-> unwrap_output_tensors,
                               func |-> func, args |-> args],
                              batched(shapes, unwrap_output_tensors, func, args))
    /\ Untouched

\* ------------------------------------------------ dataset/urban_loco_dataset
\* the number of columns of a packet, 12 in the source, scaled
ColumnsPerPacket == 2

\* the ring ids of the points of a message, -1 where no ring was found
RingIds == {-1, 0, 1}

RingIdArrays == UNION {[1..n -> RingIds] : n \in 0..MaxRingIds}

packet_finished_late(col_id) == col_id > ColumnsPerPacket

\* if col_id == 12
packet_finished(col_id) == col_id = ColumnsPerPacket

\* the state of the loop of packet_ids before the first index
PacketStart == [ring_ids_set |-> {}, packet_id |-> 0, col_id |-> 0]

\* one iteration of the loop of packet_ids on a ring id that is not negative
packet_step(st, ring_id) ==
    IF ring_id \in st.ring_ids_set
    THEN IF packet_finished(st.col_id + 1)
         THEN [ring_ids_set |-> {ring_id}, packet_id |-> st.packet_id + 1, col_id |-> 0]
         ELSE [ring_ids_set |-> {ring_id}, packet_id |-> st.packet_id,
               col_id |-> st.col_id + 1]
    ELSE [st EXCEPT !.ring_ids_set = @ \cup {ring_id}]

\* the loop of packet_ids from index idx on: the array it fills and the state
\* of the loop after each index
RECURSIVE packet_loop(_, _, _, _, _)
packet_loop(ring_ids, idx, st, array, states) ==
    IF idx > Len(ring_ids) THEN [array |-> array, states |-> states]
    ELSE IF ring_ids[idx] < 0
         THEN packet_loop(ring_ids, idx + 1, st, array, Append(states, st))
         ELSE LET next == packet_step(st, ring_ids[idx])
              IN  packet_loop(ring_ids, idx + 1, next,
                              [array EXCEPT ![idx] = next.packet_id],
                              Append(states, next))

packet_ids(ring_ids) ==
    packet_loop(ring_ids, 1, PacketStart, [i \in 1..Len(ring_ids) |-> -1], << >>)

call_packet_ids ==
    /\ probe = NoProbe
    /\ \E ring_ids \in RingIdArrays :
         probe' = Probe("packet_ids", ring_ids, packet_ids(ring_ids))
    /\ Untouched

\* the size of the first carried-over array above which the first packet of
\* the azimuth bin bounds the frame, 30000 in the source, scaled
UseFirstIdSize == 0

\* the distance of the packets of the azimuth bin above which the carried-over
\* points make a frame of their own, 50 in the source, scaled
PacketGap == 1

\* the number of carried-over points above which they make a frame of their
\* own, 50000 in the source, scaled
SkipSize == 1

\* the packet ids of the points that estimate_timestamps keeps, in the order of
\* their timestamps: they are the non-negative entries of packet_ids(ring_ids)
PacketIdArrays ==
    UNION {{a \in [1..n -> 0..(n - 1)] :
                /\ a[1] = 0
                /\ \A i \in 1..(n - 1) : a[i + 1] - a[i] \in {0, 1}}
           : n \in 1..MaxPoints}

\* the rows of pc of message n: a point with its timestamp and its packet id
Points(n, a) == [i \in 1..Len(a) |-> [message |-> n, index |-> i, packet |-> a[i]]]

\* np.nonzero(azimuth_bins == self.azimuth_bin)[0] for n points: the first and
\* the last index of the points of the azimuth bin, << >> when the bin is empty
AzimuthIndices(n) ==
    {<< >>} \cup {ids \in (1..n) \X (1..n) : ids[1] <= ids[2]}

\* the n-th message that RosbagDataset.__getitem__ hands to _save_topic
Messages(n) ==
    {[type |-> "INSPVAX", pc |-> << >>, indices |-> << >>]} \cup
    UNION {{[type |-> "PointCloud2", pc |-> Points(n, a), indices |-> ids]
                : ids \in AzimuthIndices(Len(a))}
           : a \in PacketIdArrays}

\* np.concatenate(list, axis=0) of arrays of points
RECURSIVE concatenate_points(_)
concatenate_points(arrays) ==
    IF arrays = << >> THEN << >>
    ELSE Head(arrays) \o concatenate_points(Tail(arrays))

carry_over_dropped(set_current_frame, rest) == << >>

\* self.current_frame after it was cleared: pc[~current_frame_filter] when
\* set_current_frame
carry_over(set_current_frame, rest) ==
    IF set_current_frame THEN << rest >> ELSE << >>

\* _save_topic on a point-cloud message with self.synchronise_azimuth
synchronise(ds, msg) ==
    LET first_id == msg.indices[1]
        last_id == msg.indices[2]
        first_packet_id == msg.pc[first_id].packet
        last_packet_id == msg.pc[last_id].packet
        use_first_id == /\ Len(ds.current_frame) > 0
                        /\ Len(ds.current_frame[1]) > UseFirstIdSize
        set_current_frame == ~(last_packet_id <= 1 /\ Len(ds.current_frame) = 0)
        bound == IF use_first_id THEN first_packet_id ELSE last_packet_id
        current_frame_filter(point) == ~set_current_frame \/ point.packet <= bound
        others(point) == ~current_frame_filter(point)
        current_frame ==
            concatenate_points(Append(ds.current_frame,
                                      SelectSeq(msg.pc, current_frame_filter)))
        rest == SelectSeq(msg.pc, others)
        skip == /\ set_current_frame
                /\ \/ use_first_id /\ Abs(last_packet_id - first_packet_id) > PacketGap
                   \/ last_packet_id <= 1 /\ Len(rest) > SkipSize
    IN  [dataset |-> [ds EXCEPT !.use_first_id = use_first_id,
                                !.current_frame = carry_over(set_current_frame, rest),
                                !.skip_frame = skip \/ ds.skip_frame],
         outcome |-> "ok", numpy_pc |-> current_frame]

\* _save_topic(data_dict, key, topic, msg, timestamp)
save_topic(ds, msg) ==
    IF msg.type # "PointCloud2"
    THEN [dataset |-> ds, outcome |-> "ok", numpy_pc |-> << >>]
    ELSE IF ~ds.synchronise_azimuth
    THEN [dataset |-> [ds EXCEPT !.skip_frame = FALSE], outcome |-> "ok",
          numpy_pc |-> msg.pc]
    ELSE IF msg.indices = << >>
    THEN [dataset |-> ds, outcome |-> "IndexError", numpy_pc |-> << >>]
    ELSE synchronise(ds, msg)

\* __getitem__(index)
getitem ==
    /\ IF dataset.skip_frame
       THEN /\ dataset' = [dataset EXCEPT !.current_frame = << >>,
                                          !.skip_frame = FALSE]
            /\ item' = [op |-> "__getitem__", outcome |-> "ok", read |-> item.read,
                        read_before |-> item.read, message |-> "none",
                        kept |-> << >>,
                        numpy_pc |-> concatenate_points(dataset.current_frame),
                        before |-> dataset]
       ELSE /\ item.read < MaxMessages
            /\ \E msg \in Messages(item.read + 1) :
               \E saved \in {save_topic(dataset, msg)} :
                 /\ dataset' = saved.dataset
                 /\ item' = [op |-> "__getitem__", outcome |-> saved.outcome,
                             read |-> item.read + 1, read_before |-> item.read,
                             message |-> msg.type, kept |-> msg.pc,
                             numpy_pc |-> saved.numpy_pc, before |-> dataset]
    /\ UNCHANGED <<relative_poses, iter, delta_since_map_update, tgt_vmap, tgt_pc,
                   local_map, motion_model, call, probe>>

NextDataset == getitem

SpecDataset == Init /\ [][NextDataset]_vars

NextUtils ==
    \/ call_packet_ids
    \/ call_batched
    \/ call_check_sizes
    \/ call_remove_nan
    \/ call_get_git_hash
    \/ call_align
    \/ call_read_input
    \/ call_register_new_frame
    \/ call_load
    \/ call_rigid_alignment_load

SpecUtils == Init /\ [][NextUtils]_vars

\* ------------------------------------------------------------------ claims
Ops(trace) == [i \in 1..Len(trace) |-> trace[i].op]

Count(trace, op) == Cardinality({i \in 1..Len(trace) : trace[i].op = op})

Last(seq) == seq[Len(seq)]

\* the last call was do_process_next_frame
Processed == call.op = "do_process_next_frame"

\* the last call processed a frame as the first of its sequence
FirstFrameDone == Processed /\ call.outcome = "ok" /\ call.before.iter = 0

\* the last call ran the registration loop
RegistrationRan == Processed /\ call.reg # NoRegistration

\* the last call registered a frame and processed it to the end
Registered == RegistrationRan /\ call.outcome = "ok"

\* init() has been called since the construction
InitCalled == delta_since_map_update # NonePose

\* C1: a frame that passes input reading while the frame counter is 0 gets
\* exactly the identity as its relative pose, whatever the frame holds.
C1_FirstFrameIdentity ==
    FirstFrameDone =>
        /\ Len(relative_poses) = call.before.n_poses + 1
        /\ Last(relative_poses) = [t |-> <<0, 0>>, r |-> 0]

C1_Witness ==
    /\ FirstFrameDone
    /\ InitCalled
    /\ call.frame.type = "tensor"
    /\ call.frame.cells = <<1, 0>>

\* C2: on the first frame no registration is attempted (the motion model,
\* the neighbour search and the alignment are not called), the local map
\* receives exactly one update, with the identity and the frame's vertex
\* map, and the frame counter becomes 1.
C2_FirstFrameSeedsMap ==
    FirstFrameDone =>
        /\ \A op \in {"next_initial_pose", "nearest_neighbor_search", "align",
                      "register_motion"} : Count(call.trace, op) = 0
        /\ call.reg = NoRegistration
        /\ Len(motion_model) = call.before.n_motions
        /\ Len(local_map) = call.before.n_updates + 1
        /\ Count(call.trace, "local_map.update") = 1
        /\ Last(local_map).pose = [t |-> <<0, 0>>, r |-> 0]
        /\ Last(local_map).new_vertex_map # NoneTensor
        /\ Last(local_map).new_vertex_map = tgt_vmap
        /\ Last(local_map).new_vertex_map.cells =
              IF call.frame.type = "tensor" THEN call.frame.cells ELSE <<1, 0>>
        /\ iter = 1
        /\ Last(Ops(call.trace)) = "_iter += 1"

C2_Witness ==
    /\ FirstFrameDone
    /\ Len(local_map) = 1
    /\ call.frame.type = "ndarray"

\* C3: the registration loop runs at most max_num_alignments iterations and
\* stops before the cap exactly at the first iteration whose delta has a
\* norm strictly below threshold_delta_pose.
C3_LoopStopsAtFirstConvergedDelta ==
    RegistrationRan =>
        LET deltas == call.reg.deltas
            n == Len(deltas)
            converged(i) ==
                ParamsNormSq100(deltas[i]) < 100 * ThresholdDeltaPose * ThresholdDeltaPose
        IN  /\ n <= MaxNumAlignments
            /\ Count(call.trace, "align") = n
            /\ Count(call.trace, "nearest_neighbor_search") = n
            /\ \A i \in 1..(n - 1) : ~converged(i)
            /\ n < MaxNumAlignments => (n > 0 /\ converged(n))

C3_Witness ==
    /\ RegistrationRan
    /\ Len(call.reg.deltas) = 2
    /\ ParamsNormSq100(call.reg.deltas[1]) = 100 * ThresholdDeltaPose * ThresholdDeltaPose
    /\ BelowThresholdDeltaPose(call.reg.deltas[2])

\* the estimate the registration loop starts from
StartPose(reg) == IF reg.initial = NonePose THEN Identity ELSE reg.initial

Converged(delta) ==
    ParamsNormSq100(delta) < 100 * ThresholdDeltaPose * ThresholdDeltaPose

\* the first k deltas multiplied, one after the other, on the left of pose
RECURSIVE LeftProduct(_, _, _)
LeftProduct(deltas, k, pose) ==
    IF k = 0 THEN pose
    ELSE MatMul(build_pose_matrix(deltas[k]), LeftProduct(deltas, k - 1, pose))

\* the number of deltas the loop composed into its estimate
Composed(deltas) ==
    IF deltas # << >> /\ Converged(Last(deltas)) THEN Len(deltas) - 1 ELSE Len(deltas)

\* C4 as claimed: the pose returned by register_new_frame includes the delta
\* of every executed iteration, the converging one included.
C4_Original_EveryDeltaComposed ==
    Registered =>
        call.reg.pose = LeftProduct(call.reg.deltas, Len(call.reg.deltas),
                                    StartPose(call.reg))

\* C4 (amended): every executed iteration transforms the target points by
\* the current estimate, searches the neighbours, aligns and accumulates the
\* loss, in this order; the convergence test comes next and the delta is
\* composed into the estimate only if the test fails, so the returned pose
\* includes the delta of every executed iteration but the converging one.
C4_ConvergingDeltaNotComposed ==
    RegistrationRan =>
        LET deltas == call.reg.deltas
            n      == Len(deltas)
            block(i) == SubSeq(call.trace, 5 * i - 2, 5 * i + 2)
            before(i) == LeftProduct(deltas, i - 1, StartPose(call.reg))
        IN  /\ Len(call.reg.losses) = n
            /\ Len(call.trace) >= 5 * n + 2
            /\ \A i \in 1..n :
                  /\ Ops(block(i)) =
                        << "apply_transformation", "nearest_neighbor_search", "align",
                           "losses.append",
                           IF Converged(deltas[i]) THEN "break" ELSE "compose" >>
                  /\ block(i)[1].pose = before(i)
                  /\ block(i)[2].pose = before(i)
                  /\ block(i)[3].pose = build_pose_matrix(deltas[i])
                  /\ ~Converged(deltas[i]) =>
                        block(i)[5].pose = LeftProduct(deltas, i, StartPose(call.reg))
            /\ call.reg.pose = LeftProduct(deltas, Composed(deltas), StartPose(call.reg))

C4_Witness ==
    /\ RegistrationRan
    /\ Len(call.reg.deltas) = 2
    /\ Converged(call.reg.deltas[2])
    /\ call.reg.deltas[2].t # <<0, 0>>
    /\ call.reg.initial.r = 1
    /\ call.reg.pose = [t |-> <<2, 0>>, r |-> 1]

\* C5: if no delta is below threshold_delta_pose the loop runs exactly
\* max_num_alignments iterations, raises nothing and returns its estimate
\* with max_num_alignments losses; the frame is then processed like a
\* converged one: its pose goes to the motion model, to the local map and to
\* the output (the last two once init() has set the cumulative delta).
C5_IterationCapIsNotAnError ==
    (RegistrationRan /\ \A i \in 1..Len(call.reg.deltas) : ~Converged(call.reg.deltas[i])) =>
        /\ call.reg.error = "none"
        /\ Len(call.reg.deltas) = MaxNumAlignments
        /\ Len(call.reg.losses) = MaxNumAlignments
        /\ Count(call.trace, "align") = MaxNumAlignments
        /\ call.reg.pose = LeftProduct(call.reg.deltas, MaxNumAlignments, StartPose(call.reg))
        /\ Len(motion_model) = call.before.n_motions + 1
        /\ Last(motion_model) = call.reg.pose
        /\ call.before.delta # NonePose =>
              /\ call.outcome = "ok"
              /\ Len(local_map) = call.before.n_updates + 1
              /\ Last(local_map).pose = call.reg.pose
              /\ Len(relative_poses) = call.before.n_poses + 1
              /\ Last(relative_poses) = call.reg.pose
              /\ iter = call.before.iter + 1

C5_Witness ==
    /\ Registered
    /\ Len(call.reg.deltas) = MaxNumAlignments
    /\ \A i \in 1..MaxNumAlignments : ~Converged(call.reg.deltas[i])
    /\ Last(relative_poses) = call.reg.pose
    /\ call.reg.pose.t # <<0, 0>>

\* the last call was rejected by _read_input
Rejected == Processed /\ call.outcome # "ok" /\ Ops(call.trace) = << "_read_input" >>

\* C6 as claimed: after n frames have been processed since init(),
\* register_motion has been called n times.
C6_Original_OneMotionPerFrame ==
    InitCalled => Len(motion_model) = Len(relative_poses)

\* C6 (amended): the motion model is updated once per processed frame but
\* the first, after that frame's registration: after n >= 1 frames have
\* been processed since init(), register_motion has been called n - 1 times,
\* each time with the pose the registration returned, and never for a frame
\* that input reading rejected.
C6_OneMotionPerRegisteredFrame ==
    /\ InitCalled =>
          /\ Len(motion_model) = IF relative_poses = << >> THEN 0
                                 ELSE Len(relative_poses) - 1
          /\ \A k \in 1..Len(motion_model) : motion_model[k] = relative_poses[k + 1]
    /\ Registered =>
          /\ Count(call.trace, "register_motion") = 1
          /\ Len(motion_model) = call.before.n_motions + 1
          /\ Last(motion_model) = call.reg.pose
          /\ \A i \in 1..Len(call.trace) :
                call.trace[i].op \in {"align", "compose", "break"} =>
                    \E j \in (i + 1)..Len(call.trace) : call.trace[j].op = "register_motion"
    /\ FirstFrameDone \/ Rejected =>
          /\ Count(call.trace, "register_motion") = 0
          /\ Len(motion_model) = call.before.n_motions

C6_Witness ==
    /\ InitCalled
    /\ Registered
    /\ Len(relative_poses) = 3
    /\ Len(motion_model) = 2
    /\ motion_model[1] # motion_model[2]

\* the thresholds of the map update, on a pose matrix
CrossesThreshold(m) ==
    \/ m.t[1] * m.t[1] + m.t[2] * m.t[2] > ThresholdTrans * ThresholdTrans
    \/ (IF m.r = 0 THEN 0 ELSE IF m.r = 2 THEN 180 ELSE 90) > ThresholdRot

\* C7: for a frame after the first, with D = (delta since the last full
\* update) @ (new relative pose): if the translation norm of D is strictly
\* above threshold_trans or its rotation in degrees strictly above
\* threshold_rot, the map is updated in full and the stored delta becomes
\* the identity; otherwise the update is pose-only and the stored delta is D.
C7_MapUpdateDecision ==
    Registered =>
        LET D == MatMul(call.before.delta, call.reg.pose)
        IN  /\ Last(local_map) = call.update
            /\ call.update.pose = call.reg.pose
            /\ IF CrossesThreshold(D)
               THEN /\ call.update.new_vertex_map = tgt_vmap
                    /\ call.update.new_vertex_map # NoneTensor
                    /\ call.update.new_pc_data = tgt_pc
                    /\ call.update.mask
                    /\ call.update.normal_map = call.frame.normal_map
                    /\ delta_since_map_update = Identity
               ELSE /\ PoseOnly(call.update)
                    /\ ~call.update.mask
                    /\ delta_since_map_update = D

\* the translation of D equals the threshold, its rotation too
C7_Witness ==
    /\ Registered
    /\ delta_since_map_update = [t |-> <<0, 4>>, r |-> 1]
    /\ call.before.delta # Identity
    /\ PoseOnly(call.update)

\* the cumulative delta after the first k updates of the map
RECURSIVE DeltaAfter(_, _)
DeltaAfter(updates, k) ==
    IF k <= 1 THEN Identity
    ELSE LET D == MatMul(DeltaAfter(updates, k - 1), updates[k].pose)
         IN  IF CrossesThreshold(D) THEN Identity ELSE D

\* C8: over a sequence of frames the local map receives pose-only updates
\* (the relative pose, no vertex map, no points) as long as the accumulated
\* delta is within the thresholds; at the frame where it crosses one the map
\* receives one full update and the accumulation restarts from the identity,
\* so the sub-threshold frames that follow are pose-only again.
C8_PoseOnlyUntilThreshold ==
    InitCalled =>
        /\ Len(local_map) = Len(relative_poses)
        /\ \A k \in 2..Len(local_map) :
              LET D == MatMul(DeltaAfter(local_map, k - 1), local_map[k].pose)
              IN  /\ local_map[k].pose = relative_poses[k]
                  /\ PoseOnly(local_map[k]) <=> ~CrossesThreshold(D)
                  /\ PoseOnly(local_map[k]) =>
                        local_map[k] = [NoUpdate EXCEPT !.pose = relative_poses[k]]
                  /\ (~CrossesThreshold(local_map[k].pose) /\ ~PoseOnly(local_map[k - 1]))
                        => PoseOnly(local_map[k])
        /\ delta_since_map_update = DeltaAfter(local_map, Len(local_map))

\* pose-only, then the full update, then pose-only again
C8_Witness ==
    /\ InitCalled
    /\ Len(local_map) = 4
    /\ \A k \in 2..4 : ~CrossesThreshold(local_map[k].pose) /\ local_map[k].pose # Identity
    /\ PoseOnly(local_map[2])
    /\ ~PoseOnly(local_map[3])
    /\ PoseOnly(local_map[4])
    /\ delta_since_map_update = local_map[4].pose

\* C9: for a frame after the first the steps of one call come in this
\* order: read the input, ask the motion model, run the registration loop,
\* register_motion, update the local map, append the relative pose,
\* increment the frame counter; the call ends with the increment, so no step
\* of the next frame precedes it.
C9_StepsInOrder ==
    Registered =>
        LET ops == Ops(call.trace)
            n   == Len(call.reg.deltas)
        IN  /\ Len(ops) = 5 * n + 6
            /\ ops[1] = "_read_input"
            /\ ops[2] = "next_initial_pose"
            /\ \A i \in 3..(5 * n + 2) :
                  ops[i] \in {"apply_transformation", "nearest_neighbor_search",
                              "align", "losses.append", "compose", "break"}
            /\ SubSeq(ops, 5 * n + 3, 5 * n + 6) =
                  << "register_motion", "local_map.update", "relative_poses.append",
                     "_iter += 1" >>
            /\ \A i \in (5 * n + 3)..(5 * n + 5) : call.trace[i].pose = call.reg.pose
            /\ call.trace[2].pose = call.reg.initial
            /\ iter = call.before.iter + 1
            /\ Len(relative_poses) = iter

C9_Witness ==
    /\ Registered
    /\ Len(call.reg.deltas) = 2
    /\ ~PoseOnly(call.update)
    /\ call.before.iter = 2

\* a frame that _read_input does not accept
Unreadable(f) ==
    \/ ~f.has_key
    \/ f.type \notin {"ndarray", "tensor"}
    \/ f.type = "ndarray" /\ (Len(f.shape) # 2 \/ f.shape[2] # 3)
    \/ f.type = "tensor" /\ Len(f.shape) \notin {2, 3, 4}
    \/ f.type = "tensor" /\ Len(f.shape) = 3 /\ f.shape[1] # 3
    \/ f.type = "tensor" /\ Len(f.shape) = 4 /\ (f.shape[1] # 1 \/ f.shape[2] # 3)

\* C10: if the frame lacks the data key, or its value has an unrecognised
\* type, rank or shape, do_process_next_frame raises and leaves no partial
\* result: no pose is appended, the frame counter and the cumulative delta
\* are unchanged, the local map and the motion model are neither queried
\* nor updated.
C10_BadInputLeavesNoTrace ==
    (Processed /\ Unreadable(call.frame)) =>
        /\ call.outcome \in {"AssertionError", "RuntimeError"}
        /\ Ops(call.trace) = << "_read_input" >>
        /\ Len(relative_poses) = call.before.n_poses
        /\ iter = call.before.iter
        /\ delta_since_map_update = call.before.delta
        /\ Len(local_map) = call.before.n_updates
        /\ Len(motion_model) = call.before.n_motions
        /\ call.reg = NoRegistration
        /\ call.update = NoUpdate

C10_Witness ==
    /\ Processed
    /\ call.frame.type = "ndarray"
    /\ call.frame.shape = <<2, 4>>
    /\ call.outcome = "AssertionError"
    /\ iter = 2
    /\ delta_since_map_update \notin {Identity, NonePose}

\* the last call was get_relative_poses
PosesRead == probe.fn = "get_relative_poses"

\* the relative pose the last call computed for its frame
FramePose == IF call.reg = NoRegistration THEN Identity ELSE call.reg.pose

\* C12: get_relative_poses returns None when no frame has been processed since
\* the construction or init(); otherwise it returns one array holding one
\* relative pose per successfully processed frame, in processing order (each
\* successful frame appends its pose, a failed one appends nothing, init()
\* empties the list), and the call changes no state.
C12_RelativePosesStacked ==
    /\ Len(relative_poses) = iter
    /\ Processed /\ call.outcome = "ok" =>
            relative_poses = call.before.poses \o << FramePose >>
    /\ Processed /\ call.outcome # "ok" => relative_poses = call.before.poses
    /\ call.op = "init" => relative_poses = << >>
    /\ PosesRead =>
        /\ ProgramState = probe.before
        /\ probe.ret.is_none <=> iter = 0
        /\ ~probe.ret.is_none =>
            /\ Len(probe.ret.array) = iter
            /\ \A i \in 1..iter : probe.ret.array[i] = relative_poses[i]

\* the poses of two registered frames that differ are read after the second
C12_Witness ==
    /\ PosesRead
    /\ iter = 3
    /\ probe.ret.array[2] # probe.ret.array[3]
    /\ probe.ret.array[2] # Identity

\* the poses are read before any frame is processed
C12_WitnessNone == PosesRead /\ iter = 0 /\ probe.ret.is_none

\* the last call was init()
Reset == call.op = "init"

\* what init() leaves behind
InitResets ==
    Reset =>
        /\ relative_poses = << >>
        /\ iter = 0
        /\ delta_since_map_update = Identity
        /\ local_map = << >>
        /\ motion_model = << >>
        /\ Count(call.trace, "local_map.init") = 1
        /\ Count(call.trace, "motion_model.init") = 1

\* a frame processed right after init() is a first frame
FirstFrameAfterInit ==
    Reset /\ call'.op = "do_process_next_frame" /\ call'.outcome = "ok" =>
        /\ call'.reg = NoRegistration
        /\ relative_poses' = << Identity >>
        /\ iter' = 1

\* init() after init() changes nothing
InitIdempotent ==
    Reset /\ call'.op = "init" =>
        <<relative_poses, iter, delta_since_map_update, tgt_vmap, tgt_pc, local_map,
          motion_model>>' =
        <<relative_poses, iter, delta_since_map_update, tgt_vmap, tgt_pc, local_map,
          motion_model>>

\* C13: after any sequence of processed frames init() leaves the relative-pose
\* list empty, the frame counter 0, the cumulative delta identity, and has
\* called local_map.init() and the motion model's init(); the next processed
\* frame is a first frame (identity pose, no registration), and a second
\* init() changes nothing.
C13_InitResets == []InitResets /\ [][FirstFrameAfterInit /\ InitIdempotent]_vars

\* init() is called after three frames, with a cumulative delta that is not
\* the identity and a map that has been updated
C13_Witness ==
    /\ Reset
    /\ call.before.iter = 3
    /\ call.before.delta \notin {Identity, NonePose}
    /\ call.before.n_updates > 1
    /\ call.before.n_motions > 0

\* the operations of the local map
LocalMapOps == {"local_map.init", "local_map.update", "nearest_neighbor_search"}

\* the calls the registration loop makes
LoopOps ==
    {"apply_transformation", "nearest_neighbor_search", "align", "losses.append",
     "break", "compose"}

\* C14: between the start and the return of register_new_frame the only
\* operation of the local map that is called is nearest_neighbor_search, and
\* local_map.update is called only after the last call of the registration
\* loop, at most once, and not at all when the frame fails.
C14_MapReadOnlyDuringAlignment ==
    RegistrationRan =>
        /\ \A i \in 1..Len(call.reg.log) :
                call.reg.log[i].op \in LocalMapOps =>
                    call.reg.log[i].op = "nearest_neighbor_search"
        /\ \A i, j \in 1..Len(call.trace) :
                call.trace[i].op = "local_map.update" /\ call.trace[j].op \in LoopOps
                    => j < i
        /\ Count(call.trace, "local_map.update") = Len(local_map) - call.before.n_updates
        /\ Len(local_map) - call.before.n_updates = IF call.outcome = "ok" THEN 1 ELSE 0

\* a frame is registered in two iterations, each searching the local map, and
\* the map is updated afterwards
C14_Witness ==
    /\ Registered
    /\ Count(call.reg.log, "nearest_neighbor_search") = 2
    /\ Count(call.trace, "local_map.update") = 1
    /\ Len(local_map) = 2

\* the payloads the claim lists as accepted
Accepted(d) ==
    \/ d.type = "ndarray" /\ Len(d.shape) = 2 /\ d.shape[2] = 3
    \/ d.type = "tensor" /\ Len(d.shape) = 3 /\ d.shape[1] = 3
    \/ d.type = "tensor" /\ Len(d.shape) = 4 /\ d.shape[1] = 1 /\ d.shape[2] = 3
    \/ d.type = "tensor" /\ Len(d.shape) = 2

\* the last call was _read_input on a frame holding the data key
InputRead == probe.fn = "_read_input" /\ probe.arg.has_key

\* C11: _read_input accepts under the data key exactly a numpy array N x 3, a
\* tensor 3 x H x W, a tensor 1 x 3 x H x W and a tensor of rank 2; any other
\* numpy array or tensor raises AssertionError, and a value that is neither
\* raises RuntimeError.
C11_AcceptedPayloads ==
    InputRead =>
        /\ probe.ret.error = "none" <=> Accepted(probe.arg)
        /\ probe.ret.error = "none" => probe.ret.vertex_map # NoneTensor
        /\ ~Accepted(probe.arg) /\ probe.arg.type \in {"ndarray", "tensor"} =>
                probe.ret.error = "AssertionError"
        /\ probe.arg.type \notin {"ndarray", "tensor"} =>
                probe.ret.error = "RuntimeError"

\* a tensor of rank 4 whose batch size is not 1 is rejected
C11_Witness ==
    /\ InputRead
    /\ probe.arg.type = "tensor"
    /\ probe.arg.shape = <<2, 3, 1, 2>>
    /\ probe.ret.error = "AssertionError"

\* the last call was register_new_frame and it returned
FrameRegistered == probe.fn = "register_new_frame" /\ probe.ret.error = "none"

\* C15: no null cell of the vertex map is among the points that
\* register_new_frame passes to nearest_neighbor_search: the points are the
\* cells of non-zero norm, selected once before the loop and before any pose
\* is applied, each once and in the order of the map, as many as the map has
\* non-null cells.
C15_NullCellsMasked ==
    FrameRegistered =>
        LET cells  == probe.arg.cells
            points == probe.ret.points
        IN  /\ \A i \in 1..Len(points) : cells[points[i]] # 0
            /\ \A c \in 1..Len(cells) :
                    cells[c] # 0 => \E i \in 1..Len(points) : points[i] = c
            /\ \A i, j \in 1..Len(points) : i < j => points[i] < points[j]
            /\ Len(points) = Cardinality({c \in 1..Len(cells) : cells[c] # 0})
            /\ Count(probe.ret.log, "nearest_neighbor_search") >= 1
            /\ probe.ret.log[1].op = "apply_transformation"

\* a vertex map with a null cell between two returns is registered from a
\* pose that is not the identity, in two iterations
C15_Witness ==
    /\ FrameRegistered
    /\ probe.arg.cells = <<1, 0, 1>>
    /\ probe.ret.points = <<1, 3>>
    /\ probe.ret.initial # NonePose
    /\ Count(probe.ret.log, "nearest_neighbor_search") = 2

\* the last call was ObjectLoaderEnum.load
ObjectLoaded == probe.fn = "ObjectLoaderEnum.load"

\* the last call was RIGID_ALIGNMENT.load
AlignmentLoaded == probe.fn = "RIGID_ALIGNMENT.load"

\* the loader raised AssertionError and returned nothing
Refused(ret) == ret.error = "AssertionError" /\ ret.class = "none" /\ ~ret.is_none

\* C16: ObjectLoaderEnum.load raises AssertionError and returns no object when
\* the config has no type key or the type is not in the registry;
\* RIGID_ALIGNMENT.load does when the configured mode is not in its registry,
\* and the constructor of the orchestrator then fails with the same error.
C16_UnknownStrategyIsFatal ==
    /\ ObjectLoaded =>
        LET members == probe.arg[1]
            config  == probe.arg[2]
            absent  == \/ "dataset" \notin DOMAIN config.fields
                       \/ config.kind = "DictConfig" /\ config.fields["dataset"] = "MISSING"
        IN  /\ absent => Refused(probe.ret)
            /\ ~absent /\ config.fields["dataset"] \notin DOMAIN members => Refused(probe.ret)
    /\ AlignmentLoaded =>
        LET mode == probe.arg[1]
        IN  mode # "MISSING" /\ mode \notin {"point_to_plane_gauss_newton"} =>
                /\ Refused(probe.ret.loaded)
                /\ probe.ret.constructed = "AssertionError"

\* a DictConfig names a dataset that is not registered
C16_Witness ==
    /\ ObjectLoaded
    /\ probe.arg[2].kind = "DictConfig"
    /\ probe.arg[2].fields["root_dir"] = "kitti"
    /\ "dataset" \in DOMAIN probe.arg[2].fields
    /\ probe.arg[2].fields["dataset"] = "kiti"
    /\ Refused(probe.ret)

\* the alignment is configured with a mode that is not registered
C16_WitnessAlignment ==
    /\ AlignmentLoaded
    /\ probe.arg = <<"point_to_plane_linear", TRUE>>
    /\ probe.ret.constructed = "AssertionError"

\* the last call was align
AlignCalled == probe.fn = "align"

\* the errors of a shape or of a configuration
ShapeOrConfigErrors ==
    {"AssertionError", "RuntimeError", "TypeError", "MissingMandatoryValue"}

C17_WitnessRecovered ==
    /\ AlignCalled
    /\ probe.arg[1] = [t |-> <<1, 2>>, r |-> 3]
    /\ probe.arg[2] = "ill_conditioned"
    /\ probe.arg[3]
    /\ probe.ret.error = "none"
    /\ probe.ret.params.a # 0

\* the last call was remove_nan
NanRemoved == probe.fn = "remove_nan"

\* the entries of data that hold no nan, in their order
RECURSIVE WithoutNan(_)
WithoutNan(data) ==
    IF data = << >> THEN << >>
    ELSE (IF Head(data) = "nan" THEN << >> ELSE << Head(data) >>) \o WithoutNan(Tail(data))

\* the rows of data that hold no nan, in their order
RECURSIVE RowsWithoutNan(_)
RowsWithoutNan(data) ==
    IF data = << >> THEN << >>
    ELSE (IF "nan" \in {Head(data)[j] : j \in 1..Len(Head(data))}
          THEN << >> ELSE << Head(data) >>) \o RowsWithoutNan(Tail(data))

\* C18: remove_nan returns, of a tensor of one dimension, the elements that
\* are not nan in their order, of a tensor of two dimensions, the rows that
\* hold no nan, with a filter that is true exactly at what is kept; a tensor
\* of more than two dimensions raises AssertionError.
C18_RemoveNanRemovesNan ==
    NanRemoved /\ probe.arg.kind \in {"tensor", "ndarray"} =>
        LET data == probe.arg.data
        IN  /\ probe.arg.ndims > 2 => probe.ret.error = "AssertionError"
            /\ probe.arg.ndims = 2 =>
                /\ probe.ret.error = "none"
                /\ probe.ret.tensor = RowsWithoutNan(data)
                /\ probe.ret.filter =
                        [i \in 1..Len(data) |->
                            "nan" \notin {data[i][j] : j \in 1..Len(data[i])}]
            /\ probe.arg.ndims = 1 =>
                /\ probe.ret.error = "none"
                /\ probe.ret.tensor = WithoutNan(data)
                /\ probe.ret.filter = [i \in 1..Len(data) |-> data[i] # "nan"]

\* the last call was check_sizes and sizes_match
SizesChecked == probe.fn = "check_sizes"

\* C19: check_sizes(tensor, sizes) returns iff the tensor has as many
\* dimensions as sizes has entries and every entry is -1 or the size of the
\* tensor in that dimension, and raises AssertionError otherwise; sizes_match
\* returns that condition as a boolean.
C19_CheckSizes ==
    SizesChecked =>
        LET shape == probe.arg[1]
            sizes == probe.arg[2]
            fits  == /\ Len(shape) = Len(sizes)
                     /\ {i \in 1..Len(sizes) : sizes[i] \notin {-1, shape[i]}} = {}
        IN  /\ probe.ret.raised = "none" <=> fits
            /\ ~fits => probe.ret.raised = "AssertionError"
            /\ probe.ret.match \in BOOLEAN
            /\ probe.ret.match <=> fits

\* a shape is checked against sizes that hold -1 and the size of the other
\* dimension
C19_Witness ==
    /\ SizesChecked
    /\ probe.arg = << <<2, 3>>, <<-1, 3>> >>
    /\ probe.ret.raised = "none"
    /\ probe.ret.match

\* a shape is checked against sizes of the same length that differ in one
\* dimension
C19_WitnessMismatch ==
    /\ SizesChecked
    /\ probe.arg = << <<2, 3>>, <<-1, 2>> >>
    /\ probe.ret.raised = "AssertionError"
    /\ ~probe.ret.match

\* the last call was get_git_hash
GitHashRead == probe.fn = "get_git_hash"

\* C20: when launching or reading the git subprocess raises, get_git_hash
\* returns None and no exception reaches the caller.
C20_GitHashIsSafe ==
    GitHashRead /\ git_hash_raised(probe.arg) # "none" =>
        /\ probe.ret.error = "none"
        /\ probe.ret.is_none

\* the last call processed a frame to the end
Succeeded == Processed /\ call.outcome = "ok"

\* C24: after any sequence of init() and do_process_next_frame calls the
\* frame counter equals the number of recorded relative poses; a frame
\* processed to the end adds one to both, a failed one leaves both, init()
\* sets both to zero.
C24_CounterCountsPoses ==
    /\ iter = Len(relative_poses)
    /\ Succeeded =>
        /\ iter = call.before.iter + 1
        /\ Len(relative_poses) = call.before.n_poses + 1
    /\ Processed /\ call.outcome # "ok" =>
        /\ iter = call.before.iter
        /\ Len(relative_poses) = call.before.n_poses
    /\ Reset => iter = 0 /\ Len(relative_poses) = 0

\* a frame fails after two have been processed, and leaves both at two
C24_Witness ==
    /\ Processed
    /\ call.outcome = "AssertionError"
    /\ call.before.iter = 2
    /\ iter = 2
    /\ Len(relative_poses) = 2

\* the index of the last full update among the updates of the local map, 0 if
\* there is none
LastFull(updates) ==
    LET full == {k \in 1..Len(updates) : ~PoseOnly(updates[k])}
    IN  IF full = {} THEN 0 ELSE CHOOSE k \in full : \A j \in full : j <= k

\* poses[from] @ ... @ poses[Len(poses)], the identity if there is none
RECURSIVE ComposedFrom(_, _)
ComposedFrom(poses, from) ==
    IF from > Len(poses) THEN Identity
    ELSE MatMul(poses[from], ComposedFrom(poses, from + 1))

\* C25: once init() has been called, the stored cumulative delta is within
\* both thresholds (translation norm <= threshold_trans, rotation in degrees
\* <= threshold_rot) and is the product, in order, of the relative poses of
\* the frames processed since the last full update of the map: the identity
\* right after init() and right after a full update.
C25_DeltaWithinThresholds ==
    InitCalled =>
        /\ ~CrossesThreshold(delta_since_map_update)
        /\ Len(local_map) = Len(relative_poses)
        /\ delta_since_map_update =
                ComposedFrom(relative_poses, LastFull(local_map) + 1)
        /\ Reset => delta_since_map_update = Identity
        /\ Succeeded /\ ~PoseOnly(call.update) => delta_since_map_update = Identity

\* two frames after the full update of the first frame, with poses that do
\* not commute
C25_Witness ==
    /\ InitCalled
    /\ Succeeded
    /\ Len(relative_poses) = 3
    /\ LastFull(local_map) = 1
    /\ MatMul(relative_poses[2], relative_poses[3]) #
           MatMul(relative_poses[3], relative_poses[2])
    /\ delta_since_map_update # Identity

\* C26 as claimed: every frame processed to the end calls local_map.update
\* once and register_motion once, both with the pose appended to the output.
C26_Original_SamePoseEverywhere ==
    Succeeded =>
        /\ Count(call.trace, "local_map.update") = 1
        /\ call.update.pose = Last(relative_poses)
        /\ Count(call.trace, "register_motion") = 1
        /\ Len(motion_model) = call.before.n_motions + 1
        /\ Last(motion_model) = Last(relative_poses)

\* C26 (amended): every frame processed to the end calls local_map.update
\* exactly once, with that frame's own relative pose in the full and in the
\* pose-only case; that pose is the one appended to the output and, for a
\* frame after the first, the one passed to register_motion (the first frame
\* calls no register_motion); the poses seen by the local map are the output
\* sequence.
C26_MapSeesOutputPoses ==
    /\ Succeeded =>
        /\ Count(call.trace, "local_map.update") = 1
        /\ \A i \in 1..Len(call.trace) :
                call.trace[i].op = "local_map.update" =>
                    call.trace[i].pose = Last(relative_poses)
        /\ Len(local_map) = call.before.n_updates + 1
        /\ Last(local_map) = call.update
        /\ call.update.pose = Last(relative_poses)
        /\ Last(relative_poses) = FramePose
    /\ Registered =>
        /\ Count(call.trace, "register_motion") = 1
        /\ Last(motion_model) = Last(relative_poses)
    /\ FirstFrameDone => Count(call.trace, "register_motion") = 0
    /\ Len(local_map) = Len(relative_poses)
    /\ \A k \in 1..Len(local_map) : local_map[k].pose = relative_poses[k]

\* a pose-only update whose pose is neither the identity nor the cumulative
\* delta
C26_Witness ==
    /\ Registered
    /\ PoseOnly(call.update)
    /\ call.update.pose # delta_since_map_update
    /\ call.update.pose # Identity
    /\ Len(local_map) = 3

\* the last call was ObjectLoaderEnum.load with a type of the registry
MemberSelected ==
    /\ ObjectLoaded
    /\ "dataset" \in DOMAIN probe.arg[2].fields
    /\ probe.arg[2].fields["dataset"] \in DOMAIN probe.arg[1]

\* C22: ObjectLoaderEnum.load returns None when the class or the config of
\* the selected member is None; of a DictConfig it builds the member's
\* default config, overrides exactly the keys whose value is not MISSING and
\* constructs the class with it and the keyword arguments; a config that is
\* no DictConfig is passed to the class as it is.
C22_LoadBuildsConfig ==
    MemberSelected =>
        LET config == probe.arg[2]
            member == probe.arg[1][config.fields["dataset"]]
        IN  /\ probe.ret.error = "none"
            /\ probe.ret.is_none <=> (member.class = "None" \/ member.config = "None")
            /\ ~probe.ret.is_none =>
                /\ probe.ret.class = member.class
                /\ probe.ret.kwargs = probe.arg[3]
                /\ config.kind # "DictConfig" => probe.ret.config = config.fields
                /\ config.kind = "DictConfig" =>
                    /\ DOMAIN probe.ret.config = {"dataset", "root_dir"}
                    /\ \A key \in DOMAIN config.fields :
                            config.fields[key] # "MISSING" =>
                                probe.ret.config[key] = config.fields[key]
                    /\ \A key \in {"dataset", "root_dir"} :
                            (key \in DOMAIN config.fields => config.fields[key] = "MISSING")
                                => probe.ret.config[key] = "default"

\* a DictConfig with a MISSING field is loaded with keyword arguments
C22_Witness ==
    /\ MemberSelected
    /\ probe.arg[2].kind = "DictConfig"
    /\ probe.arg[2].fields["root_dir"] = "MISSING"
    /\ probe.arg[3] = {"device"}
    /\ probe.ret.class = "NCLTDatasetLoader"
    /\ probe.ret.config = [dataset |-> "nclt", root_dir |-> "default"]

\* a member without a config class is selected
C22_WitnessNone ==
    /\ MemberSelected
    /\ probe.arg[2].fields["dataset"] = "no_config"
    /\ probe.ret.is_none

\* the parameters the claim says the solve starts from
ExpectedStart(initial_estimate) ==
    IF initial_estimate = NonePose THEN [t |-> <<0, 0>>, a |-> 0]
    ELSE IF "r" \in DOMAIN initial_estimate THEN from_pose_matrix(initial_estimate)
    ELSE initial_estimate

\* C23: align starts the solve from the zero parameters when the initial
\* estimate is None, from from_pose_matrix(initial_estimate) when it is a pose
\* matrix and from the initial estimate itself otherwise, and returns what
\* the solver returns; the registration loop gives align no initial
\* estimate, so each delta it gets is the solver's step from zero on the
\* points already transformed by the current estimate.
C23_AlignStartsFromEstimate ==
    /\ AlignCalled =>
            probe.ret = gauss_newton_compute(ExpectedStart(probe.arg[1]), probe.arg[2],
                                             probe.arg[3], probe.arg[4])
    /\ FrameRegistered =>
        /\ \A i \in 1..Len(probe.ret.deltas) :
                probe.ret.deltas[i] \in {step.delta : step \in AlignResults}
        /\ \A i \in 1..Len(probe.ret.log) :
                probe.ret.log[i].op = "align" =>
                    /\ i > 2
                    /\ probe.ret.log[i - 2].op = "apply_transformation"
                    /\ probe.ret.log[i - 1].op = "nearest_neighbor_search"
                    /\ probe.ret.log[i - 1].pose = probe.ret.log[i - 2].pose

\* align is given a parameter vector and solves from it
C23_Witness ==
    /\ AlignCalled
    /\ probe.arg[1] = [t |-> <<1, 2>>, a |-> -1]
    /\ probe.ret.error = "none"
    /\ probe.ret.params.a = -1
    /\ probe.ret.params.t # probe.arg[4].delta.t

\* the loop runs twice from an estimate that is not the identity
C23_WitnessLoop ==
    /\ FrameRegistered
    /\ probe.ret.initial # NonePose
    /\ Len(probe.ret.deltas) = 2

\* the last call was a function wrapped by batched
BatchedCalled == probe.fn = "batched"

\* a value with the leading dimension of every array in it removed
RECURSIVE Stripped(_)
Stripped(v) ==
    IF v.kind = "array" THEN [v EXCEPT !.shape = SubSeq(v.shape, 2, Len(v.shape))]
    ELSE [v EXCEPT !.items = [i \in 1..Len(v.items) |-> Stripped(v.items[i])]]

\* C21: a function wrapped by batched(shape_1..shape_k) raises AssertionError
\* when it gets fewer than k arguments or when one of the first k (arrays,
\* after extension) does not match its shape; the arguments are extended iff
\* the rank of the first is len(shape_1) - 1; when extended each of the first
\* k gets a leading dimension 1 and, with unwrap_output_tensors, every array
\* of the result loses its leading dimension, so the identity returns its
\* input; when not extended arguments and result pass unchanged.
C21_BatchedWraps ==
    BatchedCalled =>
        LET shapes == probe.arg.shapes
            args   == probe.arg.args
            k      == Len(shapes)
        IN  /\ Len(args) < k => probe.ret.error = "AssertionError"
            /\ (Len(args) >= k /\ k >= 1 /\ args[1].kind # "array") =>
                    probe.ret.error = "AssertionError"
            /\ (Len(args) >= k /\ \A i \in 1..k : args[i].kind = "array") =>
                LET ext    == k >= 1 /\ Len(args[1].shape) = Len(shapes[1]) - 1
                    eff(i) == IF ext THEN <<1>> \o args[i].shape ELSE args[i].shape
                    fits   == \A i \in 1..k :
                                  /\ Len(eff(i)) = Len(shapes[i])
                                  /\ \A j \in 1..Len(shapes[i]) :
                                         shapes[i][j] \in {-1, eff(i)[j]}
                    given  == [i \in 1..Len(args) |->
                                  IF i <= k THEN Array(eff(i)) ELSE args[i]]
                IN  /\ probe.ret.error = "none" <=> fits
                    /\ ~fits => probe.ret.error = "AssertionError"
                    /\ fits =>
                        /\ probe.ret.extended = "True" <=> ext
                        /\ probe.ret.batched_args = given
                        /\ ~ext => /\ given = args
                                   /\ probe.ret.result = Apply(probe.arg.func, args)
                        /\ ext /\ ~probe.arg.unwrap =>
                                probe.ret.result = Apply(probe.arg.func, given)
                        /\ ext /\ probe.arg.unwrap =>
                            /\ probe.ret.result = Stripped(Apply(probe.arg.func, given))
                            /\ probe.arg.func = "identity" => probe.ret.result = args[1]

\* two arguments are extended and the nested result is unwrapped
C21_Witness ==
    /\ BatchedCalled
    /\ probe.arg.shapes = << <<-1, 3>>, <<1, 2>> >>
    /\ probe.arg.args = << Array(<<3>>), Array(<<2>>) >>
    /\ probe.arg.unwrap
    /\ probe.arg.func = "nested"
    /\ probe.ret.error = "none"
    /\ probe.ret.batched_args = << Array(<<1, 3>>), Array(<<1, 2>>) >>
    /\ probe.ret.result.items[1].items = probe.arg.args

\* the first argument is not extended and the second would have to be
C21_WitnessNotExtended ==
    /\ BatchedCalled
    /\ probe.arg.shapes = << <<-1, 3>>, <<-1, 3>> >>
    /\ probe.arg.args = << Array(<<2, 3>>), Array(<<3>>) >>
    /\ probe.ret.error = "AssertionError"

PacketIdsCalled == probe.fn = "packet_ids"

\* the indices of ring_ids whose ring id is not negative
ValidIndices(ring_ids) == {i \in 1..Len(ring_ids) : ring_ids[i] >= 0}

\* the state of the loop before index i
StateBefore(states, i) == IF i = 1 THEN PacketStart ELSE states[i - 1]

\* the valid index before i, 0 when there is none
PreviousValid(ring_ids, i) ==
    IF \E j \in ValidIndices(ring_ids) : j < i
    THEN CHOOSE j \in ValidIndices(ring_ids) :
            /\ j < i
            /\ \A k \in ValidIndices(ring_ids) : k < i => k <= j
    ELSE 0

\* the indices at which a column ends: the column counter moved
ColumnEnds(ring_ids, states) ==
    {i \in 1..Len(ring_ids) :
        \/ StateBefore(states, i).col_id # states[i].col_id
        \/ StateBefore(states, i).packet_id # states[i].packet_id}

\* the indices at which the packet id increases
PacketStarts(ring_ids, array) ==
    {i \in ValidIndices(ring_ids) :
        /\ PreviousValid(ring_ids, i) # 0
        /\ array[i] > array[PreviousValid(ring_ids, i)]}

\* the last index before i of a set of indices, 0 when there is none
LastBefore(indices, i) ==
    IF \E j \in indices : j < i
    THEN CHOOSE j \in indices : j < i /\ \A k \in indices : k < i => k <= j
    ELSE 0

\* the ring ids seen in the column that is open before index i
SeenInColumn(ring_ids, ends, i) ==
    {ring_ids[j] : j \in {k \in ValidIndices(ring_ids) :
                            k < i /\ k >= LastBefore(ends, i)}}

\* C27: packet_ids gives -1 to every index with a negative ring id and such an
\* index leaves the column and packet state alone; over the other indices the
\* packet ids start at 0, never decrease and grow by at most 1 per index; a
\* column ends exactly when a ring id of the open column occurs again, and the
\* packet id grows exactly when the column that ends is the
\* ColumnsPerPacket-th since the last packet boundary
C27_PacketIds ==
    PacketIdsCalled =>
        LET ring_ids == probe.arg
            array == probe.ret.array
            states == probe.ret.states
            valid == ValidIndices(ring_ids)
            ends == ColumnEnds(ring_ids, states)
            starts == PacketStarts(ring_ids, array)
        IN  /\ Len(array) = Len(ring_ids)
            /\ Len(states) = Len(ring_ids)
            /\ \A i \in 1..Len(ring_ids) :
                 ring_ids[i] < 0 =>
                    /\ array[i] = -1
                    /\ states[i] = StateBefore(states, i)
            /\ \A i \in valid :
                 IF PreviousValid(ring_ids, i) = 0
                 THEN array[i] = 0
                 ELSE /\ array[i] >= array[PreviousValid(ring_ids, i)]
                      /\ array[i] <= array[PreviousValid(ring_ids, i)] + 1
            /\ \A i \in 1..Len(ring_ids) :
                 i \in ends <=>
                    /\ i \in valid
                    /\ ring_ids[i] \in SeenInColumn(ring_ids, ends, i)
            /\ \A i \in 1..Len(ring_ids) :
                 i \in starts <=>
                    /\ i \in ends
                    /\ Cardinality({j \in ends : j <= i /\ j > LastBefore(starts, i)})
                         = ColumnsPerPacket

\* two packets, a column that ends inside the first, and a negative ring id
C27_Witness ==
    /\ PacketIdsCalled
    /\ Len(probe.arg) = MaxRingIds
    /\ \E i \in 1..Len(probe.arg) : probe.arg[i] < 0
    /\ \E i \in 1..Len(probe.arg) : probe.ret.array[i] = 1
    /\ \E i \in ColumnEnds(probe.arg, probe.ret.states) : probe.ret.array[i] = 0

Range(seq) == {seq[i] : i \in 1..Len(seq)}

\* the points carried over from the previous message
Carried == concatenate_points(item.before.current_frame)

\* the points of the carry-over buffer
Buffered == concatenate_points(dataset.current_frame)

ItemReturned == item.op = "__getitem__" /\ item.outcome = "ok"

\* __getitem__ read a point-cloud message and synchronised it
Synchronised ==
    /\ ItemReturned
    /\ item.message = "PointCloud2"
    /\ item.before.synchronise_azimuth

\* __getitem__ was called with skip_frame set
Skipped == item.op = "__getitem__" /\ item.before.skip_frame

C28_WitnessSkipped ==
    /\ Skipped
    /\ item.numpy_pc # << >>
    /\ item.read = MaxMessages

====
